---- MODULE Spec2Model ----
(***************************************************************************)
(* Regularized shortest path over the lifted (edge-pair) grid graph and    *)
(* the local refinement of the discrete path.                              *)
(*                                                                         *)
(*   find_path   : matlab/library/curve_segmentation_mex.cpp (mexFunction) *)
(*                 matlab/library/edgepair_segmentaion.cpp                 *)
(*   refine_path : matlab/library/local_optimization_mex.cpp               *)
(*                                                                         *)
(* Costs are doubles in the code.  Here every cost is an integer number of *)
(* 1/200 units: a Euclidean norm is floor(100*sqrt(.)) and the line        *)
(* integral of a segment between two neighbouring voxel centres is the     *)
(* mean of the two voxel values times the norm, so twice the norm times    *)
(* the mean stays an integer.  Coordinates of the refinement are tenths.   *)
(***************************************************************************)
EXTENDS Integers, Sequences, FiniteSets, TLC

VARIABLES
    pc,               \* position of mexFunction (find_path)
    mesh_map,         \* prhs[0]: [dims |-> <<M,N,O>>, data |-> linear index -> label]
    unary,            \* prhs[1]: [dims |-> <<M,N,O>>, data |-> linear index -> value]
    connectivity,     \* prhs[2]: sequence of offsets <<dx,dy,dz>>
    params,           \* the options structure as the caller passed it
    settings,         \* InstanceSettings, as parse_settings returned it and mexFunction changed it
    voxeldimensions,  \* the vector after the default was filled in
    M, N, O,          \* the global image size
    warned,           \* "Torsion is always zero in a plane." was printed
    use_pairs, use_edges,
    start_sets, end_sets,   \* PointSets parsed from the cell arrays
    lifting,          \* which *_segmentation mexFunction called
    start_set_pairs, end_set_pairs,
    open, closed, dist, parent,   \* the search: queue, finalized states, distances, parent pointers
    evaluations,      \* number of calls of the neighbor callback
    path_pairs,       \* the lifted path returned by shortest_path
    points,           \* the decoded path
    cost,             \* the cost returned by shortest_path
    outcome,          \* "none" | "ok" | "InvalidInput" | "NoSolution"
    rpc,              \* position of mexFunction_main (refine_path)
    r_unary_dims,     \* size of the data volume passed to refine_path
    r_path,           \* the input path, one-based, in tenths
    r_dim,            \* number of columns of the input path
    r_settings,       \* the penalties parse_settings returned
    r_solver,         \* the option local_solver
    r_points,         \* the variables of the objective, zero-based, in tenths
    r_constant,       \* indices of the points held constant
    r_terms,          \* the terms added to the objective
    r_solved,         \* the solver has run
    r_result,         \* resulting_path, one-based, in tenths
    r_outcome,        \* "none" | "ok" | "InvalidInput" | "NotSupported" | "crash"
    ipc,              \* position of a sequence of calls of the index functions
    i_point,          \* coordinates (x, y, z) given to validind and sub2ind
    i_root,           \* linear index given to ind2sub, root of the edge pair
    i_edges,          \* the two offset indices <<e1, e2>> of the edge pair
    i_valid,          \* validind(i_point)
    i_ind, i_back,    \* sub2ind(i_point) and ind2sub of it
    i_sub, i_again,   \* ind2sub(i_root) and sub2ind of it
    i_id,             \* the id of the edge pair (i_root, e1, e2)
    i_decoded         \* <<root, e1, e2>> as the two decompose functions return them

findVars == <<pc, mesh_map, unary, connectivity, params, settings, voxeldimensions,
              M, N, O, warned, use_pairs, use_edges, start_sets, end_sets, lifting,
              start_set_pairs, end_set_pairs, open, closed, dist, parent,
              evaluations, path_pairs, points, cost, outcome>>

refineVars == <<rpc, r_unary_dims, r_path, r_dim, r_settings, r_solver, r_points, r_constant, r_terms,
                r_solved, r_result, r_outcome>>

indexVars == <<ipc, i_point, i_root, i_edges, i_valid, i_ind, i_back, i_sub, i_again,
               i_id, i_decoded>>

vars == <<findVars, refineVars, indexVars>>

-----------------------------------------------------------------------------
(* Bounds of the model *)

\* data values of the volume are drawn from -MaxData .. MaxData
MaxData == 1

\* penalty weights are drawn from -1 .. MaxWeight
MaxWeight == 1

\* the path given to refine_path has at most MaxPathLen points
MaxPathLen == 5

-----------------------------------------------------------------------------
(* int: 32 bits, two's complement; a value is handled as two limbs of 16 bits,
   so that no intermediate result leaves the 32 bits *)

\* a + b on int, wrapping on overflow: the low limb of the sum, and the sum of the high
\* limbs with the carry read as a signed limb
IntAdd(a, b) ==
    ((((a \div 65536) + (b \div 65536) + (((a % 65536) + (b % 65536)) \div 65536) + 32768) % 65536)
        - 32768) * 65536 + (((a % 65536) + (b % 65536)) % 65536)

\* a * b on int, wrapping on overflow, for 0 <= b < 32768 (b is K*K)
IntMul(a, b) ==
    ((((a \div 65536) * b + (((a % 65536) * b) \div 65536) + 32768) % 65536)
        - 32768) * 65536 + (((a % 65536) * b) % 65536)

\* a / b on int for b > 0: the quotient is truncated towards zero
IntDiv(a, b) == (a \div b) + (IF a < 0 /\ (a % b) # 0 THEN 1 ELSE 0)

\* a % b on int for b > 0: the remainder has the sign of a
IntMod(a, b) == (a % b) - (IF a < 0 /\ (a % b) # 0 THEN b ELSE 0)

-----------------------------------------------------------------------------
(* Grid index: curve_segmentation_mex.cpp *)

numel(dims) == dims[1] * dims[2] * dims[3]

\* matrix<T>::ndim() of a MATLAB array: trailing singleton dimensions are dropped,
\* and an array has at least two dimensions
ndim(dims) == IF dims[3] > 1 THEN 3 ELSE 2

validind(n1, n2, n3) ==
    IF (n1 > M - 1 \/ n2 > N - 1 \/ n3 > O - 1) \/ (n1 < 0 \/ n2 < 0 \/ n3 < 0)
    THEN FALSE
    ELSE TRUE

sub2ind(n1, n2, n3) == n1 + n2 * M + n3 * M * N

\* a decoding that takes the index as row-major
ind2sub_RowMajor(n) ==
    LET x == IntDiv(n, N * O)
        y == IntDiv(n - x * N * O, O)
        z == n - y * O - x * N * O
    IN  <<x, y, z>>

ind2sub(n) ==
    LET z == IntDiv(n, M * N)
        y == IntDiv(n - z * M * N, M)
        x == n - y * M - z * M * N
    IN  <<x, y, z>>

make_point(n) == ind2sub(n)

\* mesh_map(x, y, z): element access of the label matrix
label(x, y, z) ==
    mesh_map.data[x + y * mesh_map.dims[1] + z * mesh_map.dims[1] * mesh_map.dims[2]]

-----------------------------------------------------------------------------
(* Edge pairs: edgepair_segmentaion.cpp *)

\* connectivity.M, the number of offsets
K == Len(connectivity)

\* connectivity(e, c) with zero-based row e and column c
conn(e, c) == connectivity[e + 1][c + 1]

decompose_edgepair(edge_num) ==
    LET divisor == K
    IN  <<IntDiv(edge_num, divisor), IntMod(edge_num, divisor)>>

decompose_pair_of_edgepairs(edgepair_num) ==
    LET divisor == K * K
    IN  <<IntDiv(edgepair_num, divisor), IntMod(edgepair_num, divisor)>>

\* the voxel p moved by the offset e
Add(p, e) == <<p[1] + conn(e, 0), p[2] + conn(e, 1), p[3] + conn(e, 2)>>

\* x1 + connectivity(e1, .) and x2 + connectivity(e2, .) from the root x1
PairCoords(p1, e1, e2) == <<p1, Add(p1, e1), Add(Add(p1, e1), e2)>>

\* the three voxel coordinates of an edge pair
coords_in_a_edgepair(edgepair_num) ==
    LET re == decompose_pair_of_edgepairs(edgepair_num)
        ee == decompose_edgepair(re[2])
    IN  PairCoords(ind2sub(re[1]), ee[1], ee[2])

\* the indices q1, q2, q3 of three voxel coordinates
PointIndices(c) ==
    <<sub2ind(c[1][1], c[1][2], c[1][3]),
      sub2ind(c[2][1], c[2][2], c[2][3]),
      sub2ind(c[3][1], c[3][2], c[3][3])>>

points_in_a_edgepair(edgepair_num) == PointIndices(coords_in_a_edgepair(edgepair_num))

pairpath_to_points(path) ==
    (IF Len(path) > 0
     THEN <<make_point(points_in_a_edgepair(path[1])[1]),
            make_point(points_in_a_edgepair(path[1])[2])>>
     ELSE <<>>)
      \o [i \in 1..Len(path) |-> make_point(points_in_a_edgepair(path[i])[3])]

-----------------------------------------------------------------------------
(* Data term and regularization functors, in units of 1/200 *)

\* floor(100 * sqrt(sq))
Norm100(sq) ==
    CASE sq = 0 -> 0
      [] sq = 1 -> 100
      [] sq = 2 -> 141
      [] sq = 3 -> 173
      [] OTHER  -> CHOOSE r \in 0..(100 * sq) : r * r <= 10000 * sq /\ (r + 1) * (r + 1) > 10000 * sq

Abs(i) == IF i < 0 THEN -i ELSE i

RECURSIVE Pow(_, _)
Pow(b, e) == IF e = 0 THEN 1 ELSE b * Pow(b, e - 1)

\* the edge q - p in physical units
Scaled(p, q) == <<voxeldimensions[1] * (q[1] - p[1]),
                  voxeldimensions[2] * (q[2] - p[2]),
                  voxeldimensions[3] * (q[3] - p[3])>>

SqNorm(v) == v[1] * v[1] + v[2] * v[2] + v[3] * v[3]

Cross(u, v) == <<u[2] * v[3] - u[3] * v[2], u[3] * v[1] - u[1] * v[3], u[1] * v[2] - u[2] * v[1]>>

Dot(u, v) == u[1] * v[1] + u[2] * v[2] + u[3] * v[3]

\* PieceWiseConstant::evaluate_line_integral between two voxel centres whose
\* offset has components in -1..1: half of the segment lies in each voxel
evaluate_line_integral(p, q) ==
    (unary.data[sub2ind(p[1], p[2], p[3])] + unary.data[sub2ind(q[1], q[2], q[3])])
        * Norm100(SqNorm(Scaled(p, q)))

\* penalty * || dims (.) (p2 - p1) ||
length_cost(p, q) == 2 * settings.length_penalty * Norm100(SqNorm(Scaled(p, q)))

\* discrete curvature of three points: zero exactly when the two edges are parallel
compute_curvature(p1, p2, p3, power) ==
    Pow(SqNorm(Cross(Scaled(p1, p2), Scaled(p2, p3))), power)

curvature_cost(p1, p2, p3) ==
    200 * settings.curvature_penalty * compute_curvature(p1, p2, p3, settings.curvature_power)

\* discrete torsion of four points: zero exactly when the three edges are coplanar
compute_torsion(p1, p2, p3, p4, power) ==
    Pow(Abs(Dot(Cross(Scaled(p1, p2), Scaled(p2, p3)), Scaled(p3, p4))), power)

torsion_cost(p1, p2, p3, p4) ==
    200 * settings.torsion_penalty * compute_torsion(p1, p2, p3, p4, settings.torsion_power)

-----------------------------------------------------------------------------
(* edgepair_segmentation: start and end sets, neighbor callback *)

Valid(p) == validind(p[1], p[2], p[3])

pair_id(p1, e1, e2) ==
    IntAdd(IntAdd(IntMul(sub2ind(p1[1], p1[2], p1[3]), K * K), K * e1), e2)

\* the pairs (n, e1, e2) the loops of lines 116-152 reach the two inserts with
CandidatePairs ==
    { t \in (0..(numel(mesh_map.dims) - 1)) \X (0..(K - 1)) \X (0..(K - 1)) :
        LET p1 == ind2sub(t[1])
            p2 == Add(p1, t[2])
            p3 == Add(p2, t[3])
        IN  /\ Valid(p2)
            /\ ~(p1[1] = p3[1] /\ p1[2] = p3[2] /\ p1[3] = p3[3])
            /\ Valid(p3) }

StartSetPairs ==
    { pair_id(ind2sub(t[1]), t[2], t[3]) :
        t \in { c \in CandidatePairs :
                  LET p1 == ind2sub(c[1]) IN label(p1[1], p1[2], p1[3]) = 2 } }

\* an end set that tests the label of the second voxel of the pair
EndSetPairs_SecondVoxel ==
    { pair_id(ind2sub(t[1]), t[2], t[3]) :
        t \in { c \in CandidatePairs :
                  LET p2 == Add(ind2sub(c[1]), c[2])
                  IN  label(p2[1], p2[2], p2[3]) = 3 } }

EndSetPairs ==
    { pair_id(ind2sub(t[1]), t[2], t[3]) :
        t \in { c \in CandidatePairs :
                  LET p3 == Add(Add(ind2sub(c[1]), c[2]), c[3])
                  IN  label(p3[1], p3[2], p3[3]) = 3 } }

\* a count that takes one edge, not a pair of edges, per voxel and offset
num_edges_OneEdgePerState == K * numel(mesh_map.dims)

num_edges == IntMul(numel(mesh_map.dims), K * K)

e_super == num_edges

RECURSIVE SortedSeq(_)
SortedSeq(S) ==
    IF S = {} THEN <<>>
    ELSE LET m == CHOOSE x \in S : \A y \in S : x <= y
         IN  <<m>> \o SortedSeq(S \ {m})

\* a super-state transition that pays for the first segment of the pair only
SuperCost_FirstSegmentOnly(p2, p3, p4) ==
    evaluate_line_integral(p2, p3) + length_cost(p2, p3)

\* the cost of the transition from the super-state to the pair of the voxels p2, p3, p4
SuperCost(p2, p3, p4) ==
    evaluate_line_integral(p2, p3) + evaluate_line_integral(p3, p4)
      + curvature_cost(p2, p3, p4)
      + length_cost(p2, p3) + length_cost(p3, p4)

\* the transition to the pair with the voxel indices q
SuperNeighbor(id, q) == <<id, SuperCost(ind2sub(q[1]), ind2sub(q[2]), ind2sub(q[3]))>>

\* the transitions to the pairs ids, in their order
SuperNeighborsOf(ids) ==
    [i \in 1..Len(ids) |-> SuperNeighbor(ids[i], points_in_a_edgepair(ids[i]))]

\* Neighbor(dest, cost) for every pair of the start set, in the order of the std::set
SuperNeighbors == SuperNeighborsOf(SortedSeq(start_set_pairs))

\* a loop that skips only the e3 leaving the grid
ValidE3_BackMoveKept(p2, p3) == { e3 \in 0..(K - 1) : Valid(Add(p3, e3)) }

\* the e3 for which the loop of lines 230-257 reaches the push_back
ValidE3(p2, p3) ==
    { e3 \in 0..(K - 1) :
        LET p4 == Add(p3, e3)
        IN  /\ Valid(p4)
            /\ ~(p2[1] = p4[1] /\ p2[2] = p4[2] /\ p2[3] = p4[3]) }

\* the cost of the transition that appends the voxel p4 to the pair of p1, p2, p3
UsualCost(p1, p2, p3, p4) ==
    evaluate_line_integral(p3, p4)
      + length_cost(p3, p4)
      + torsion_cost(p1, p2, p3, p4)
      + curvature_cost(p2, p3, p4)

\* the neighbor with the root p2 and the edges e2, e3
UsualNeighbor(p1, p2, p3, e2, e3) ==
    <<IntAdd(IntMul(sub2ind(p2[1], p2[2], p2[3]), K * K), K * e2 + e3),
      UsualCost(p1, p2, p3, Add(p3, e3))>>

\* the neighbors for the offsets es, in their order
UsualNeighborsOf(p1, p2, p3, e2, es) ==
    [i \in 1..Len(es) |-> UsualNeighbor(p1, p2, p3, e2, es[i])]

\* the neighbors of the pair with the voxels c and the second edge e2
UsualNeighborsAt(c, e2) ==
    UsualNeighborsOf(c[1], c[2], c[3], e2, SortedSeq(ValidE3(c[2], c[3])))

UsualNeighbors(ep) ==
    UsualNeighborsAt(coords_in_a_edgepair(ep),
                     decompose_edgepair(decompose_pair_of_edgepairs(ep)[2])[2])

get_neighbors_torsion(ep) ==
    IF ep = e_super THEN SuperNeighbors ELSE UsualNeighbors(ep)

-----------------------------------------------------------------------------
(* The search of shortest_path: a best-first search with parent pointers *)

\* the options mexFunction hands to shortest_path (lines 256-258)
ShortestPathOptions == [print_progress |-> FALSE, maximum_queue_size |-> 1000000000]

\* the queue has outgrown the cap of the options
QueueTooLarge(queue, options) == Cardinality(queue) > options.maximum_queue_size

\* the states of the queue with the least tentative distance
MinOpen == { s \in open : \A t \in open : dist[s] <= dist[t] }

RECURSIVE PathTo(_, _)
PathTo(par, s) == IF s \in DOMAIN par THEN PathTo(par, par[s]) \o <<s>> ELSE <<s>>

\* relaxation of the neighbors nb[i..] of the state s being finalized; a finalized
\* state is not opened again; st = [dist, parent, open]
RECURSIVE Relax(_, _, _, _)
Relax(st, s, nb, i) ==
    IF i > Len(nb) THEN st
    ELSE LET d == nb[i][1]
             c == st.dist[s] + nb[i][2]
         IN  IF d \notin closed \cup {s} /\ (d \notin DOMAIN st.dist \/ c < st.dist[d])
             THEN Relax([dist   |-> [x \in DOMAIN st.dist \cup {d} |->
                                        IF x = d THEN c ELSE st.dist[x]],
                         parent |-> [x \in DOMAIN st.parent \cup {d} |->
                                        IF x = d THEN s ELSE st.parent[x]],
                         open   |-> st.open \cup {d}],
                        s, nb, i + 1)
             ELSE Relax(st, s, nb, i + 1)

-----------------------------------------------------------------------------
(* Node and edge liftings: feasible voxel paths *)

FlatPoints(sets) == UNION { { sets[i][j] : j \in 1..Len(sets[i]) } : i \in 1..Len(sets) }

LabelledVoxels(l) ==
    { p \in { ind2sub(n) : n \in 0..(numel(mesh_map.dims) - 1) } : label(p[1], p[2], p[3]) = l }

StartVoxels == IF start_sets # <<>> THEN FlatPoints(start_sets) ELSE LabelledVoxels(2)

EndVoxels == IF end_sets # <<>> THEN FlatPoints(end_sets) ELSE LabelledVoxels(3)

IsOffset(p, q) == \E e \in 0..(K - 1) : Add(p, e) = q

AllowedVoxels ==
    { n \in 0..(numel(mesh_map.dims) - 1) :
        LET p == ind2sub(n) IN label(p[1], p[2], p[3]) # 0 }

\* the simple paths over allowed voxels that extend a path of P by one move
ExtendPaths(P) ==
    { w \in UNION { { Append(v, n) : n \in AllowedVoxels } : v \in P } :
        /\ IsOffset(ind2sub(w[Len(w) - 1]), ind2sub(w[Len(w)]))
        /\ \A i \in 1..(Len(w) - 1) : w[i] # w[Len(w)] }

RECURSIVE PathsUpTo(_, _)
PathsUpTo(P, n) == IF n = 0 \/ P = {} THEN P ELSE P \cup PathsUpTo(ExtendPaths(P), n - 1)

\* the simple voxel paths from a start voxel to an end voxel over allowed voxels
FeasiblePaths ==
    { w \in PathsUpTo({ <<n>> : n \in { a \in AllowedVoxels : ind2sub(a) \in StartVoxels } },
                      numel(mesh_map.dims) - 1) :
        Len(w) >= 2 /\ ind2sub(w[Len(w)]) \in EndVoxels }

-----------------------------------------------------------------------------
(* find_path: mexFunction of curve_segmentation_mex.cpp *)

parse_settings(ps) ==
    [length_penalty        |-> ps.length_penalty,
     curvature_penalty     |-> ps.curvature_penalty,
     torsion_penalty       |-> ps.torsion_penalty,
     curvature_power       |-> ps.curvature_power,
     torsion_power         |-> ps.torsion_power,
     regularization_radius |-> ps.regularization_radius]

\* input checks that leave out the sign of the torsion weight
InputOK_NoTorsionCheck(vd, st) ==
    /\ Len(vd) = 3
    /\ st.regularization_radius > 0
    /\ ndim(mesh_map.dims) = ndim(unary.dims)
    /\ mesh_map.dims[1] = unary.dims[1]
    /\ mesh_map.dims[2] = unary.dims[2]
    /\ mesh_map.dims[3] = unary.dims[3]
    /\ st.length_penalty >= 0
    /\ st.curvature_penalty >= 0

\* the ASSERTs of lines 139-147
InputOK(vd, st) ==
    /\ Len(vd) = 3
    /\ st.regularization_radius > 0
    /\ ndim(mesh_map.dims) = ndim(unary.dims)
    /\ mesh_map.dims[1] = unary.dims[1]
    /\ mesh_map.dims[2] = unary.dims[2]
    /\ mesh_map.dims[3] = unary.dims[3]
    /\ st.length_penalty >= 0
    /\ st.curvature_penalty >= 0
    /\ st.torsion_penalty >= 0

\* lines 105-147: read the arguments, set the image size, check the input
CheckInput ==
    /\ pc = "start"
    /\ M' = unary.dims[1]
    /\ N' = unary.dims[2]
    /\ O' = unary.dims[3]
    /\ settings' = parse_settings(params)
    /\ voxeldimensions' = IF params.voxeldimensions = <<>> THEN <<1, 1, 1>>
                          ELSE params.voxeldimensions
    /\ IF InputOK(voxeldimensions', settings')
       THEN pc' = "checked" /\ outcome' = outcome
       ELSE pc' = "done" /\ outcome' = "InvalidInput"
    /\ UNCHANGED <<mesh_map, unary, connectivity, params, warned, use_pairs, use_edges,
                   start_sets, end_sets, lifting, start_set_pairs, end_set_pairs,
                   open, closed, dist, parent, evaluations, path_pairs, points, cost>>
    /\ UNCHANGED refineVars
    /\ UNCHANGED indexVars

\* a 2-D correction that leaves the torsion weight as given
ForceTorsion_Never(st) == st

\* lines 149-154: no torsion for 2D
ForceTorsion(st) ==
    IF ndim(mesh_map.dims) = 2 /\ st.torsion_penalty # 0
    THEN [st EXCEPT !.torsion_penalty = 0]
    ELSE st

\* lines 156-165
UsePairs(st) == st.torsion_penalty # 0

\* a choice of the edge lifting that also looks at the length weight
UseEdges_LengthCounts(st) ==
    ~(st.torsion_penalty # 0) /\ (st.curvature_penalty # 0 \/ st.length_penalty # 0)

UseEdges(st) == ~(st.torsion_penalty # 0) /\ st.curvature_penalty # 0

SelectLifting ==
    /\ pc = "checked"
    /\ warned' = (ndim(mesh_map.dims) = 2 /\ settings.torsion_penalty # 0)
    /\ settings' = ForceTorsion(settings)
    /\ use_pairs' = UsePairs(settings')
    /\ use_edges' = UseEdges(settings')
    /\ pc' = "selected"
    /\ UNCHANGED <<mesh_map, unary, connectivity, params, voxeldimensions, M, N, O,
                   start_sets, end_sets, lifting, start_set_pairs, end_set_pairs,
                   open, closed, dist, parent, evaluations, path_pairs, points, cost,
                   outcome>>
    /\ UNCHANGED refineVars
    /\ UNCHANGED indexVars

\* one cell of start_sets / end_sets: a matrix with N columns, one point per row
CellOK(cell) == \A i \in 1..Len(cell.cells) : cell.cells[i].ncols \in {2, 3}

ParseCell(cell) ==
    [i \in 1..Len(cell.cells) |->
       [j \in 1..Len(cell.cells[i].rows) |->
          IF cell.cells[i].ncols = 3
          THEN cell.cells[i].rows[j]
          ELSE <<cell.cells[i].rows[j][1], cell.cells[i].rows[j][2], 0>>]]

\* lines 170-233
ParseSets ==
    /\ pc = "selected"
    /\ IF (params.start_sets.present => CellOK(params.start_sets))
          /\ (params.end_sets.present => CellOK(params.end_sets))
       THEN /\ start_sets' = IF params.start_sets.present
                             THEN ParseCell(params.start_sets) ELSE <<>>
            /\ end_sets' = IF params.end_sets.present
                           THEN ParseCell(params.end_sets) ELSE <<>>
            /\ pc' = "parsed"
            /\ outcome' = outcome
       ELSE /\ pc' = "done"
            /\ outcome' = "InvalidInput"
            /\ UNCHANGED <<start_sets, end_sets>>
    /\ UNCHANGED <<mesh_map, unary, connectivity, params, settings, voxeldimensions,
                   M, N, O, warned, use_pairs, use_edges, lifting, start_set_pairs,
                   end_set_pairs, open, closed, dist, parent, evaluations, path_pairs,
                   points, cost>>
    /\ UNCHANGED refineVars
    /\ UNCHANGED indexVars

\* lines 294-299 and edgepair_segmentation up to the call of shortest_path
CallEdgepair ==
    /\ pc = "parsed"
    /\ use_pairs
    /\ lifting' = "pairs"
    /\ start_set_pairs' = StartSetPairs
    /\ end_set_pairs' = EndSetPairs
    /\ evaluations' = 0
    /\ open' = {e_super}
    /\ closed' = {}
    /\ dist' = (e_super :> 0)
    /\ parent' = <<>>
    /\ pc' = "search"
    /\ UNCHANGED <<mesh_map, unary, connectivity, params, settings, voxeldimensions,
                   M, N, O, warned, use_pairs, use_edges, start_sets, end_sets,
                   path_pairs, points, cost, outcome>>
    /\ UNCHANGED refineVars
    /\ UNCHANGED indexVars

\* one iteration of shortest_path with the callback get_neighbors_torsion; on
\* return, lines 277-283 of edgepair_segmentation
SearchStep ==
    /\ pc = "search"
    /\ lifting = "pairs"
    /\ IF QueueTooLarge(open, ShortestPathOptions)
       THEN /\ outcome' = "ResourceExhausted"
            /\ pc' = "done"
            /\ UNCHANGED <<open, closed, dist, parent, evaluations, path_pairs, points, cost>>
       ELSE IF open = {}
       THEN /\ path_pairs' = <<>>
            /\ outcome' = "NoSolution"
            /\ pc' = "done"
            /\ UNCHANGED <<open, closed, dist, parent, evaluations, points, cost>>
       ELSE \E s \in MinOpen :
              IF s \in end_set_pairs
              THEN /\ path_pairs' = Tail(PathTo(parent, s))
                   /\ points' = pairpath_to_points(path_pairs')
                   /\ cost' = dist[s]
                   /\ outcome' = "ok"
                   /\ pc' = "done"
                   /\ UNCHANGED <<open, closed, dist, parent, evaluations>>
              ELSE \E st \in { Relax([dist |-> dist, parent |-> parent, open |-> open \ {s}],
                                       s, get_neighbors_torsion(s), 1) } :
                       /\ evaluations' = evaluations + 1
                       /\ closed' = closed \cup {s}
                       /\ dist' = st.dist
                       /\ parent' = st.parent
                       /\ open' = st.open
                       /\ UNCHANGED <<pc, path_pairs, points, cost, outcome>>
    /\ UNCHANGED <<mesh_map, unary, connectivity, params, settings, voxeldimensions,
                   M, N, O, warned, use_pairs, use_edges, start_sets, end_sets, lifting,
                   start_set_pairs, end_set_pairs>>
    /\ UNCHANGED refineVars
    /\ UNCHANGED indexVars

\* the result of a search over the node or the edge lifting
FlatSearch(name) ==
    /\ lifting' = name
    /\ LET paths == FeasiblePaths
       IN  IF paths = {}
           THEN /\ outcome' = "NoSolution"
                /\ UNCHANGED points
           ELSE /\ outcome' = "ok"
                /\ \E w \in paths : points' = [i \in 1..Len(w) |-> ind2sub(w[i])]
    /\ pc' = "done"
    /\ UNCHANGED <<mesh_map, unary, connectivity, params, settings, voxeldimensions,
                   M, N, O, warned, use_pairs, use_edges, start_sets, end_sets,
                   start_set_pairs, end_set_pairs, open, closed, dist, parent,
                   evaluations, path_pairs, cost>>
    /\ UNCHANGED refineVars
    /\ UNCHANGED indexVars

\* lines 300-305
CallEdge == pc = "parsed" /\ ~use_pairs /\ use_edges /\ FlatSearch("edges")

\* lines 306-312
CallNode == pc = "parsed" /\ ~use_pairs /\ ~use_edges /\ FlatSearch("nodes")

-----------------------------------------------------------------------------
(* refine_path: mexFunction_main of local_optimization_mex.cpp; coordinates in tenths *)

Max2(a, b) == IF a > b THEN a ELSE b

Min2(a, b) == IF a < b THEN a ELSE b

\* magic_one_offset = 0.1
magic_one_offset == 1

\* lines 242-255: zero-based index, then both clamps; size is M, N or O
ClampCoordinate(v, size) ==
    Min2(Max2(v - 10, magic_one_offset), 10 * size - 10 - magic_one_offset)

InitialPoint(row) ==
    <<ClampCoordinate(row[1], r_unary_dims[1]),
      ClampCoordinate(row[2], r_unary_dims[2]),
      ClampCoordinate(row[3], r_unary_dims[3])>>

\* lines 229-237
lower_bound == <<0, 0, IF r_unary_dims[3] = 1 THEN -10 ELSE 0>>

upper_bound ==
    <<10 * r_unary_dims[1] - 10, 10 * r_unary_dims[2] - 10,
      IF r_unary_dims[3] = 1 THEN 10 ELSE 10 * r_unary_dims[3] - 10>>

InBox(p) == \A j \in 1..3 : lower_bound[j] <= p[j] /\ p[j] <= upper_bound[j]

\* lines 152-258: read the arguments, check the path, create the variables
CreatePoints ==
    /\ rpc = "start"
    /\ IF r_dim = 2 \/ r_dim = 3
       THEN /\ r_points' = [i \in 1..Len(r_path) |-> InitialPoint(r_path[i])]
            /\ rpc' = "created"
            /\ UNCHANGED r_outcome
       ELSE /\ r_outcome' = "InvalidInput"
            /\ rpc' = "done"
            /\ UNCHANGED r_points
    /\ UNCHANGED <<r_unary_dims, r_path, r_dim, r_settings, r_solver, r_constant, r_terms,
                   r_solved, r_result>>
    /\ UNCHANGED findVars
    /\ UNCHANGED indexVars

\* the indices of lines 261-265 (zero-based), those inside the vector
FixedIndices(n) == {0, 1, n - 2, n - 1} \cap (0..(n - 1))

\* lines 260-265: with fewer than two points an index lies outside the vector
FixEndpoints ==
    /\ rpc = "created"
    /\ LET n == Len(r_path)
       IN  \/ /\ r_constant' = FixedIndices(n)
              /\ rpc' = "fixed"
              /\ UNCHANGED r_outcome
           \/ /\ n < 2
              /\ r_outcome' = "crash"
              /\ rpc' = "done"
              /\ UNCHANGED r_constant
    /\ UNCHANGED <<r_unary_dims, r_path, r_dim, r_settings, r_solver, r_points, r_terms,
                   r_solved, r_result>>
    /\ UNCHANGED findVars
    /\ UNCHANGED indexVars

\* lines 273-326: the terms of the objective, each with the index of its last point
ObjectiveTerms(n, st) ==
    { <<"unary", i>> : i \in 1..(n - 1) }
    \cup (IF st.length_penalty > 0 THEN { <<"length", i>> : i \in 1..(n - 1) } ELSE {})
    \cup (IF st.curvature_penalty > 0 THEN { <<"curvature", i>> : i \in 2..(n - 1) } ELSE {})
    \cup (IF st.torsion_penalty > 0 THEN { <<"torsion", i>> : i \in 3..(n - 1) } ELSE {})

AddTerms ==
    /\ rpc = "fixed"
    /\ r_terms' = ObjectiveTerms(Len(r_path), r_settings)
    /\ rpc' = "assembled"
    /\ UNCHANGED <<r_unary_dims, r_path, r_dim, r_settings, r_solver, r_points, r_constant,
                   r_solved, r_result, r_outcome>>
    /\ UNCHANGED findVars
    /\ UNCHANGED indexVars

\* the displacements a solver step may give a free variable
Moves == { <<0, 0, 0>>, <<1, 0, 0>>, <<0, -1, 0>> }

Moved(p, m) == <<p[1] + m[1], p[2] + m[2], p[3] + m[3]>>

\* Solver::solve: constant variables keep their value, the others stay in the box
Solved(pts, constant) ==
    LET free == { i \in 1..Len(pts) : (i - 1) \notin constant }
    IN  { [i \in 1..Len(pts) |-> IF i \in free THEN Moved(pts[i], mv[i]) ELSE pts[i]] :
            mv \in { f \in [free -> Moves] :
                       \A i \in free : f[i] = <<0, 0, 0>> \/ InBox(Moved(pts[i], f[i])) } }

\* lines 331-365
Solve ==
    /\ rpc = "assembled"
    /\ IF r_solver = "nelder_mead"
       THEN /\ r_outcome' = "NotSupported"
            /\ rpc' = "done"
            /\ UNCHANGED <<r_points, r_solved>>
       ELSE /\ r_points' \in Solved(r_points, r_constant)
            /\ r_solved' = TRUE
            /\ rpc' = "solved"
            /\ UNCHANGED r_outcome
    /\ UNCHANGED <<r_unary_dims, r_path, r_dim, r_settings, r_solver, r_constant, r_terms,
                   r_result>>
    /\ UNCHANGED findVars
    /\ UNCHANGED indexVars

\* lines 376-382: one-based again; with two columns the third store lies outside the matrix
WriteResult ==
    /\ rpc = "solved"
    /\ \/ /\ r_result' = [i \in 1..Len(r_points) |->
                            <<r_points[i][1] + 10, r_points[i][2] + 10, r_points[i][3] + 10>>]
          /\ r_outcome' = "ok"
       \/ /\ r_dim = 2
          /\ Len(r_points) > 0
          /\ r_outcome' = "crash"
          /\ UNCHANGED r_result
    /\ rpc' = "done"
    /\ UNCHANGED <<r_unary_dims, r_path, r_dim, r_settings, r_solver, r_points, r_constant,
                   r_terms, r_solved>>
    /\ UNCHANGED findVars
    /\ UNCHANGED indexVars

-----------------------------------------------------------------------------
(* The calls of find_path the model explores *)

\* image sizes (M, N, O): two 3-D images and one 2-D image of four voxels
GridSizes == { <<1, 1, 4>>, <<2, 1, 2>>, <<2, 2, 1>> }

\* the 6-neighborhood, and a one-directional template with a diagonal
Conn6 == << <<1, 0, 0>>, <<-1, 0, 0>>, <<0, 1, 0>>, <<0, -1, 0>>, <<0, 0, 1>>, <<0, 0, -1>> >>

ConnForward == << <<1, 0, 0>>, <<0, 1, 0>>, <<0, 0, 1>>, <<1, 0, 1>> >>

\* a template whose first row is the zero offset
ConnStay == << <<0, 0, 0>>, <<1, 0, 0>>, <<0, 0, 1>> >>

Connectivities == { Conn6, ConnForward }

Labels == 0..3

DataValues == (0 - MaxData)..MaxData

Weights == (0 - 1)..MaxWeight

\* coordinates of the linear index n in an image of size dims
Sub(dims, n) ==
    LET z == n \div (dims[1] * dims[2])
        y == (n - z * dims[1] * dims[2]) \div dims[1]
    IN  <<n - y * dims[1] - z * dims[1] * dims[2], y, z>>

NoCell == [present |-> FALSE, cells |-> <<>>]

\* a cell array holding one matrix with ncols columns and the one point p
OneCell(ncols, p) == [present |-> TRUE, cells |-> << [ncols |-> ncols, rows |-> <<p>>] >>]

\* no cell array (ncols = 0), or one holding voxel n of an image of size dims
CellOption(ncols, dims, n) == IF ncols = 0 THEN NoCell ELSE OneCell(ncols, Sub(dims, n))

\* the label map with the first voxel a start voxel, the last an end voxel, the rest free
CornerLabels(dims) ==
    [n \in 0..(numel(dims) - 1) |->
       IF n = 0 THEN 2 ELSE IF n = numel(dims) - 1 THEN 3 ELSE 1]

\* the option maximum_queue_size of a call: 0 when the caller leaves it out
QueueCaps == {0, 2}

Options(wl, wc, wt, r, vd, ss, es, q) ==
    [length_penalty |-> wl, curvature_penalty |-> wc, torsion_penalty |-> wt,
     curvature_power |-> 2, torsion_power |-> 2,
     regularization_radius |-> r, voxeldimensions |-> vd,
     start_sets |-> ss, end_sets |-> es, maximum_queue_size |-> q]

\* calls with every label map of a four-voxel image, a uniform data volume and all
\* three penalties
SearchCalls ==
    \E d \in GridSizes, l \in [0..3 -> Labels], c \in Connectivities, wt \in 1..MaxWeight :
        /\ mesh_map = [dims |-> d, data |-> l]
        /\ unary = [dims |-> d, data |-> [n \in 0..(numel(d) - 1) |-> 1]]
        /\ connectivity = c
        /\ params = Options(1, 1, wt, 1, <<>>, NoCell, NoCell, 0)

\* 3-D image sizes of the calls that vary the data volume
CostSizes == { <<1, 1, 2>>, <<2, 1, 2>>, <<2, 2, 2>> }

\* calls with one label map, a data volume of two alternating values, a one-directional
\* template and torsion penalized
CostCalls ==
    \E d \in CostSizes, a \in DataValues, b \in {0 - MaxData, MaxData},
       c \in {ConnForward, ConnStay},
       wl \in {0, MaxWeight}, wc \in {0, MaxWeight}, wt \in 1..MaxWeight, q \in QueueCaps :
        /\ mesh_map = [dims |-> d, data |-> CornerLabels(d)]
        /\ unary = [dims |-> d, data |-> [n \in 0..(numel(d) - 1) |-> IF n % 2 = 0 THEN a ELSE b]]
        /\ connectivity = c
        /\ params = Options(wl, wc, wt, 1, <<>>, NoCell, NoCell, q)

\* calls with one label map and every combination of options and image sizes
EntryCalls ==
    \E dm \in GridSizes, du \in GridSizes, wl \in Weights, wc \in Weights, wt \in Weights,
       r \in 0..1, vd \in { <<>>, <<1, 1>>, <<1, 1, 2>> }, ss \in {0, 3, 4}, es \in {0, 2} :
        /\ mesh_map = [dims |-> dm, data |-> CornerLabels(dm)]
        /\ unary = [dims |-> du, data |-> [n \in 0..(numel(du) - 1) |-> 0]]
        /\ connectivity = Conn6
        /\ params = Options(wl, wc, wt, r, vd, CellOption(ss, du, 1), CellOption(es, du, 2), 0)

\* InstanceSettings before parse_settings has filled it
NoSettings ==
    [length_penalty |-> 0, curvature_penalty |-> 0, torsion_penalty |-> 0,
     curvature_power |-> 0, torsion_power |-> 0, regularization_radius |-> 0]

FindIdle ==
    /\ settings = NoSettings
    /\ voxeldimensions = <<>>
    /\ M = 1 /\ N = 1 /\ O = 1
    /\ warned = FALSE
    /\ use_pairs = FALSE /\ use_edges = FALSE
    /\ start_sets = <<>> /\ end_sets = <<>>
    /\ lifting = "none"
    /\ start_set_pairs = {} /\ end_set_pairs = {}
    /\ open = {} /\ closed = {} /\ dist = <<>> /\ parent = <<>>
    /\ evaluations = 0
    /\ path_pairs = <<>> /\ points = <<>> /\ cost = 0
    /\ outcome = "none"

RefineIdle ==
    /\ rpc = "idle"
    /\ r_unary_dims = <<1, 1, 1>>
    /\ r_path = <<>>
    /\ r_dim = 3
    /\ r_settings = NoSettings
    /\ r_solver = "lbfgs"
    /\ r_points = <<>>
    /\ r_constant = {}
    /\ r_terms = {}
    /\ r_solved = FALSE
    /\ r_result = <<>>
    /\ r_outcome = "none"

IndexIdle ==
    /\ ipc = "idle"
    /\ i_point = <<0, 0, 0>>
    /\ i_root = 0
    /\ i_edges = <<0, 0>>
    /\ i_valid = FALSE
    /\ i_ind = 0 /\ i_back = <<0, 0, 0>>
    /\ i_sub = <<0, 0, 0>> /\ i_again = 0
    /\ i_id = 0
    /\ i_decoded = <<0, 0, 0>>

Init ==
    /\ pc = "start"
    /\ (SearchCalls \/ CostCalls \/ EntryCalls)
    /\ FindIdle
    /\ RefineIdle
    /\ IndexIdle

Next ==
    \/ CheckInput
    \/ SelectLifting
    \/ ParseSets
    \/ CallEdgepair
    \/ SearchStep
    \/ CallEdge
    \/ CallNode

Spec == Init /\ [][Next]_vars

-----------------------------------------------------------------------------
(* The calls of refine_path the model explores *)

\* a 3-D and a 2-D data volume
RefineSizes == { <<3, 3, 3>>, <<3, 3, 1>> }

\* one-based voxels of a discrete path: the low corner, an inner voxel, the high corner
PathVoxels(dims) ==
    { <<10, 10, 10>>,
      <<20, 20, 10 * Min2(2, dims[3])>>,
      <<10 * dims[1], 10 * dims[2], 10 * dims[3]>> }

FindUnused ==
    /\ pc = "idle"
    /\ mesh_map = [dims |-> <<1, 1, 1>>, data |-> <<>>]
    /\ unary = [dims |-> <<1, 1, 1>>, data |-> <<>>]
    /\ connectivity = <<>>
    /\ params = Options(0, 0, 0, 0, <<>>, NoCell, NoCell, 0)
    /\ FindIdle

InitRefine ==
    /\ rpc = "start"
    /\ r_unary_dims \in RefineSizes
    /\ \E n \in 0..MaxPathLen : r_path \in [1..n -> PathVoxels(r_unary_dims)]
    /\ r_dim \in {2, 3, 4}
    /\ \E w \in {0, MaxWeight} :
         r_settings = [NoSettings EXCEPT !.length_penalty = w, !.curvature_penalty = w,
                                         !.torsion_penalty = w, !.curvature_power = 2,
                                         !.torsion_power = 2, !.regularization_radius = 1]
    /\ r_solver \in {"newton", "lbfgs", "nelder_mead"}
    /\ r_points = <<>>
    /\ r_constant = {}
    /\ r_terms = {}
    /\ r_solved = FALSE
    /\ r_result = <<>>
    /\ r_outcome = "none"
    /\ FindUnused
    /\ IndexIdle

NextRefine ==
    \/ CreatePoints
    \/ FixEndpoints
    \/ AddTerms
    \/ Solve
    \/ WriteResult

SpecRefine == InitRefine /\ [][NextRefine]_vars

-----------------------------------------------------------------------------
(* Calls of the index functions: validind, sub2ind, ind2sub, the pair id and its
   decomposition, on images of a few voxels and on images whose number of voxels
   is close to the largest int *)

SmallSizes == { <<2, 1, 2>>, <<2, 3, 2>>, <<1, 1, 4>>, <<3, 2, 1>> }

LargeSizes == { <<256, 256, 64>>, <<2048, 1024, 1023>> }

\* the 26-neighborhood
Conn26 ==
    [i \in 1..26 |->
       LET j == IF i <= 13 THEN i - 1 ELSE i
       IN  <<(j % 3) - 1, ((j \div 3) % 3) - 1, (j \div 9) - 1>>]

\* coordinates inside an image of size dims and one step outside of it
PointsAround(dims) ==
    IF dims \in SmallSizes
    THEN ((0 - 1)..dims[1]) \X ((0 - 1)..dims[2]) \X ((0 - 1)..dims[3])
    ELSE {0 - 1, 0, dims[1] - 1, dims[1]} \X {0 - 1, 0, dims[2] - 1, dims[2]}
           \X {0 - 1, 0, dims[3] - 1, dims[3]}

\* linear indices of an image of size dims
Roots(dims) ==
    IF dims \in SmallSizes
    THEN 0..(numel(dims) - 1)
    ELSE {0, 1, numel(dims) \div 2, numel(dims) - 2, numel(dims) - 1}

\* offset indices of a template of k rows
EdgeIndices(dims, k) == IF dims \in SmallSizes THEN 0..(k - 1) ELSE {0, 1, k - 2, k - 1}

\* the globals M, N, O are set from the image, as lines 113-115 do
InitIndex ==
    /\ ipc = "start"
    /\ \E d \in SmallSizes \cup LargeSizes, c \in {Conn6, ConnForward, Conn26} :
         /\ mesh_map = [dims |-> d, data |-> <<>>]
         /\ unary = [dims |-> d, data |-> <<>>]
         /\ connectivity = c
         /\ M = d[1] /\ N = d[2] /\ O = d[3]
         /\ \/ /\ i_point \in PointsAround(d)
               /\ i_root = 0
               /\ i_edges = <<0, 0>>
            \/ /\ i_point = <<0, 0, 0>>
               /\ i_root \in Roots(d)
               /\ i_edges \in EdgeIndices(d, Len(c)) \X EdgeIndices(d, Len(c))
    /\ i_valid = FALSE
    /\ i_ind = 0 /\ i_back = <<0, 0, 0>>
    /\ i_sub = <<0, 0, 0>> /\ i_again = 0
    /\ i_id = 0
    /\ i_decoded = <<0, 0, 0>>
    /\ pc = "idle"
    /\ params = Options(0, 0, 0, 0, <<>>, NoCell, NoCell, 0)
    /\ settings = NoSettings
    /\ voxeldimensions = <<>>
    /\ warned = FALSE
    /\ use_pairs = FALSE /\ use_edges = FALSE
    /\ start_sets = <<>> /\ end_sets = <<>>
    /\ lifting = "none"
    /\ start_set_pairs = {} /\ end_set_pairs = {}
    /\ open = {} /\ closed = {} /\ dist = <<>> /\ parent = <<>>
    /\ evaluations = 0
    /\ path_pairs = <<>> /\ points = <<>> /\ cost = 0
    /\ outcome = "none"
    /\ RefineIdle

\* validind(x, y, z)
CheckPoint ==
    /\ ipc = "start"
    /\ i_valid' = validind(i_point[1], i_point[2], i_point[3])
    /\ ipc' = "checked"
    /\ UNCHANGED <<i_point, i_root, i_edges, i_ind, i_back, i_sub, i_again, i_id, i_decoded>>
    /\ UNCHANGED findVars
    /\ UNCHANGED refineVars

\* sub2ind of a point of the image, then ind2sub of the index
PointToIndex ==
    /\ ipc = "checked"
    /\ IF i_valid
       THEN /\ i_ind' = sub2ind(i_point[1], i_point[2], i_point[3])
            /\ i_back' = ind2sub(i_ind')
       ELSE UNCHANGED <<i_ind, i_back>>
    /\ ipc' = "indexed"
    /\ UNCHANGED <<i_point, i_root, i_edges, i_valid, i_sub, i_again, i_id, i_decoded>>
    /\ UNCHANGED findVars
    /\ UNCHANGED refineVars

\* ind2sub of an index of the image, then sub2ind of the coordinates
IndexToPoint ==
    /\ ipc = "indexed"
    /\ i_sub' = ind2sub(i_root)
    /\ i_again' = sub2ind(i_sub'[1], i_sub'[2], i_sub'[3])
    /\ ipc' = "located"
    /\ UNCHANGED <<i_point, i_root, i_edges, i_valid, i_ind, i_back, i_id, i_decoded>>
    /\ UNCHANGED findVars
    /\ UNCHANGED refineVars

\* the pair id of lines 142-143 for the pair rooted in the voxel i_sub
EncodePair ==
    /\ ipc = "located"
    /\ i_id' = pair_id(i_sub, i_edges[1], i_edges[2])
    /\ ipc' = "encoded"
    /\ UNCHANGED <<i_point, i_root, i_edges, i_valid, i_ind, i_back, i_sub, i_again, i_decoded>>
    /\ UNCHANGED findVars
    /\ UNCHANGED refineVars

\* decompose_pair_of_edgepairs followed by decompose_edgepair, as lines 35-38 and 210-213
DecodePair ==
    /\ ipc = "encoded"
    /\ LET re == decompose_pair_of_edgepairs(i_id)
           ee == decompose_edgepair(re[2])
       IN  i_decoded' = <<re[1], ee[1], ee[2]>>
    /\ ipc' = "decoded"
    /\ UNCHANGED <<i_point, i_root, i_edges, i_valid, i_ind, i_back, i_sub, i_again, i_id>>
    /\ UNCHANGED findVars
    /\ UNCHANGED refineVars

NextIndex ==
    \/ CheckPoint
    \/ PointToIndex
    \/ IndexToPoint
    \/ EncodePair
    \/ DecodePair

SpecIndex == InitIndex /\ [][NextIndex]_vars

-----------------------------------------------------------------------------
(* Properties of find_path *)

\* the label of a grid point
LabelOf(p) == label(p[1], p[2], p[3])

\* the voxels a chain of connectivity offsets over allowed voxels reaches from S
RECURSIVE ReachableFrom(_)
ReachableFrom(S) ==
    LET T == S \cup { n \in AllowedVoxels : \E a \in S : IsOffset(ind2sub(a), ind2sub(n)) }
    IN  IF T = S THEN S ELSE ReachableFrom(T)

\* every chain of offsets from a start-labelled to an end-labelled voxel meets a blocked voxel
SeparatedByBlocked ==
    \A n \in ReachableFrom({ a \in AllowedVoxels : LabelOf(ind2sub(a)) = 2 }) :
        LabelOf(ind2sub(n)) # 3

\* C1: whichever lifting runs, a label map whose start and end voxels are separated by
\* blocked voxels gives NoSolution, and a returned path holds no blocked voxel
C1_BlockedVoxelsRespected ==
    (pc = "done" /\ lifting # "none" /\ start_sets = <<>> /\ end_sets = <<>>) =>
        /\ SeparatedByBlocked => (outcome = "NoSolution" /\ points = <<>>)
        /\ outcome = "ok" => \A i \in 1..Len(points) : LabelOf(points[i]) # 0

\* the candidate pairs whose first voxel is one of the points P
PairsRootedIn(P) ==
    { pair_id(ind2sub(t[1]), t[2], t[3]) : t \in { c \in CandidatePairs : ind2sub(c[1]) \in P } }

\* the candidate pairs whose third voxel is one of the points P
PairsEndingIn(P) ==
    { pair_id(ind2sub(t[1]), t[2], t[3]) :
        t \in { c \in CandidatePairs : Add(Add(ind2sub(c[1]), c[2]), c[3]) \in P } }

\* C4: with the edge-pair lifting, supplied start_sets / end_sets replace the sets read
\* from labels 2 and 3 of the label map
C4_ExplicitSetsOverride ==
    lifting = "pairs" =>
        /\ start_sets # <<>> => start_set_pairs = PairsRootedIn(FlatPoints(start_sets))
        /\ end_sets # <<>> => end_set_pairs = PairsEndingIn(FlatPoints(end_sets))

\* C5: exactly one lifting is called, chosen by the torsion and curvature weights as they
\* stand after validation (and after the 2-D correction of the torsion weight): pairs iff
\* torsion is nonzero, edges iff torsion is zero and curvature is nonzero, nodes iff both
\* are zero, whatever the length weight
C5_LiftingSelection ==
    /\ lifting # "none" =>
         /\ lifting = "pairs" <=> settings.torsion_penalty # 0
         /\ lifting = "edges" <=> (settings.torsion_penalty = 0 /\ settings.curvature_penalty # 0)
         /\ lifting = "nodes" <=> (settings.torsion_penalty = 0 /\ settings.curvature_penalty = 0)
    /\ (pc \in {"search", "done"} /\ outcome # "InvalidInput") => lifting # "none"

C5_Witness ==
    /\ pc = "done"
    /\ lifting = "nodes"
    /\ settings.length_penalty # 0

\* the call passes the input checks (stated on the arguments)
ValidCall ==
    /\ params.length_penalty >= 0
    /\ params.curvature_penalty >= 0
    /\ params.torsion_penalty >= 0
    /\ params.regularization_radius > 0
    /\ Len(params.voxeldimensions) \in {0, 3}
    /\ mesh_map.dims = unary.dims

\* C6: a 2-D label map with nonzero torsion weight does not fail; the torsion weight is set
\* to zero with a warning, the pairs lifting is not used and the curvature weight alone
\* chooses between edges and nodes; no other setting is changed, and nothing is changed or
\* warned about for any other call
C6_TorsionForcedIn2D ==
    (ValidCall /\ pc \notin {"start", "checked"}) =>
        /\ settings.length_penalty = params.length_penalty
        /\ settings.curvature_penalty = params.curvature_penalty
        /\ settings.curvature_power = params.curvature_power
        /\ settings.torsion_power = params.torsion_power
        /\ settings.regularization_radius = params.regularization_radius
        /\ IF ndim(mesh_map.dims) = 2 /\ params.torsion_penalty # 0
           THEN /\ warned
                /\ settings.torsion_penalty = 0
                /\ ~use_pairs
                /\ lifting \in {"none", IF params.curvature_penalty # 0 THEN "edges" ELSE "nodes"}
                /\ (pc = "done" /\ CellOK(params.start_sets) /\ CellOK(params.end_sets))
                      => (lifting # "none" /\ outcome \in {"ok", "NoSolution"})
           ELSE /\ ~warned
                /\ settings.torsion_penalty = params.torsion_penalty

C6_Witness ==
    /\ pc = "done"
    /\ ndim(mesh_map.dims) = 2
    /\ params.torsion_penalty # 0
    /\ params.curvature_penalty # 0
    /\ warned
    /\ lifting = "edges"
    /\ outcome = "ok"

\* C7: a call with a negative weight, a non-positive radius, a voxeldimensions vector of
\* the wrong size or a label map whose size differs from the data volume fails at the input
\* check: no lifting is called, no start or goal set is built, the callback is never invoked
\* and no path is produced
C7_InvalidInputFailsFirst ==
    (~ValidCall /\ pc # "start") =>
        /\ pc = "done"
        /\ outcome = "InvalidInput"
        /\ lifting = "none"
        /\ start_sets = <<>> /\ end_sets = <<>>
        /\ start_set_pairs = {} /\ end_set_pairs = {}
        /\ open = {} /\ closed = {}
        /\ evaluations = 0
        /\ path_pairs = <<>> /\ points = <<>>

C7_Witness ==
    /\ pc = "done"
    /\ outcome = "InvalidInput"
    /\ params.torsion_penalty < 0
    /\ params.regularization_radius > 0
    /\ mesh_map.dims = unary.dims
    /\ ndim(mesh_map.dims) = 3

\* C8: a successful edge-pair query starts in a start voxel and ends in an end voxel: the
\* first lifted state lies in the start set and its first voxel is labelled 2, the last
\* lifted state lies in the end set and its third voxel is labelled 3, and these are the
\* first and the last decoded point
C8_EndpointsLabelled ==
    (lifting = "pairs" /\ outcome = "ok") =>
        /\ Len(path_pairs) >= 1
        /\ Len(points) = Len(path_pairs) + 2
        /\ path_pairs[1] \in start_set_pairs
        /\ points[1] = coords_in_a_edgepair(path_pairs[1])[1]
        /\ LabelOf(points[1]) = 2
        /\ path_pairs[Len(path_pairs)] \in end_set_pairs
        /\ points[Len(points)] = coords_in_a_edgepair(path_pairs[Len(path_pairs)])[3]
        /\ LabelOf(points[Len(points)]) = 3

C8_Witness ==
    /\ lifting = "pairs"
    /\ outcome = "ok"
    /\ Len(path_pairs) >= 2
    /\ Cardinality(start_set_pairs) >= 2

\* C9: every lifted state the search reaches from the super-state has its three voxels in
\* the grid and an id below the super-state's; expanding a state of the queue (every
\* reached state is in the queue first) yields no super-state and only states in the grid;
\* the super-state is only the first element of a search path and is absent from the
\* lifted path that is decoded; every decoded point lies in the grid
C9_StatesInGrid ==
    lifting = "pairs" =>
        /\ \A s \in DOMAIN dist \ {e_super} :
             /\ 0 <= s /\ s < e_super
             /\ \A i \in 1..3 : Valid(coords_in_a_edgepair(s)[i])
        /\ \A s \in open :
             LET nb == get_neighbors_torsion(s)
                 path == PathTo(parent, s)
             IN  /\ \A i \in 1..Len(nb) :
                      /\ nb[i][1] # e_super
                      /\ \A j \in 1..3 : Valid(coords_in_a_edgepair(nb[i][1])[j])
                 /\ path[1] = e_super
                 /\ \A i \in 2..Len(path) : path[i] # e_super
        /\ e_super \notin DOMAIN parent
        /\ outcome = "ok" =>
             /\ \A i \in 1..Len(path_pairs) : path_pairs[i] # e_super
             /\ \A i \in 1..Len(points) : Valid(points[i])

\* a finalized ordinary state with a candidate e3 that left the grid
C9_Witness ==
    /\ lifting = "pairs"
    /\ outcome = "ok"
    /\ Len(path_pairs) >= 2
    /\ \E s \in closed \ {e_super} :
         \E e3 \in 0..(K - 1) : ~Valid(Add(coords_in_a_edgepair(s)[3], e3))

\* C10: with nonnegative weights every cost the edge-pair callback returns, from the
\* super-state and from ordinary states, is >= 0, whatever the data volume
C10_CostsNonnegative ==
    (lifting = "pairs" /\ settings.length_penalty >= 0 /\ settings.curvature_penalty >= 0
       /\ settings.torsion_penalty >= 0) =>
        \A s \in closed :
            LET nb == get_neighbors_torsion(s)
            IN  \A i \in 1..Len(nb) : nb[i][2] >= 0

-----------------------------------------------------------------------------
(* Properties of refine_path *)

\* the zero-based indices of the two fixed endpoint pairs
EndpointIndices(n) == {0, 1, n - 2, n - 1}

\* C2: for a path of at least four points the result has points 0, 1, n-2 and n-1 where
\* the input had them, also on the image boundary and in a 2-D image
C2_EndpointsFixed ==
    (r_outcome = "ok" /\ Len(r_path) >= 4) =>
        \A i \in EndpointIndices(Len(r_path)) :
            \A j \in 1..r_dim : r_result[i + 1][j] = r_path[i + 1][j]

\* C3: a path of fewer than four points is refused with InvalidInput before a variable is
\* fixed, a term is added or the solver runs
C3_ShortPathRejected ==
    Len(r_path) < 4 =>
        /\ r_constant = {}
        /\ r_terms = {}
        /\ ~r_solved
        /\ rpc = "done" => r_outcome = "InvalidInput"

-----------------------------------------------------------------------------
(* Properties of the search and of the edge-pair encoding *)

\* C11: the queue of the search never holds more states than the maximum_queue_size the
\* caller gave; a search cut off by the cap ends with ResourceExhausted, and NoSolution is
\* only the outcome of a search whose queue ran empty
C11_QueueCapEnforced ==
    (lifting = "pairs" /\ params.maximum_queue_size > 0) =>
        /\ Cardinality(open) <= params.maximum_queue_size
        /\ outcome = "NoSolution" => open = {}
        /\ outcome = "ResourceExhausted" => open # {}

\* C12: the id of the edge pair (root, e1, e2) is root*K*K + e1*K + e2; the two decompose
\* functions return (root, e1, e2) from it, so that distinct pairs have distinct ids; the
\* id is at least 0 and less than the id of the super-state
C12_PairIdRoundTrip ==
    ipc \in {"encoded", "decoded"} =>
        /\ 0 <= i_id /\ i_id < e_super
        /\ ipc = "decoded" => i_decoded = <<i_root, i_edges[1], i_edges[2]>>
        /\ i_id = i_root * (K * K) + i_edges[1] * K + i_edges[2]

\* the image size of a column-major index
InImage(p) == 0 <= p[1] /\ p[1] < M /\ 0 <= p[2] /\ p[2] < N /\ 0 <= p[3] /\ p[3] < O

\* C13: validind holds exactly for the coordinates inside the image; sub2ind(x, y, z) is
\* x + y*M + z*M*N and ind2sub returns (x, y, z) from it; ind2sub of an index of the image
\* is a point of the image and sub2ind returns the index from it
C13_IndexRoundTrip ==
    /\ ipc # "start" /\ ipc # "idle" => (i_valid <=> InImage(i_point))
    /\ (ipc \notin {"idle", "start", "checked"} /\ i_valid) =>
          /\ i_ind = i_point[1] + i_point[2] * M + i_point[3] * M * N
          /\ i_back = i_point
    /\ ipc \in {"located", "encoded", "decoded"} =>
          /\ validind(i_sub[1], i_sub[2], i_sub[3])
          /\ InImage(i_sub)
          /\ i_again = i_root

C13_Witness ==
    /\ ipc = "located"
    /\ i_valid
    /\ i_point = <<M - 1, N - 1, O - 1>>
    /\ M > 1 /\ N > 1 /\ O > 1
    /\ i_ind = numel(mesh_map.dims) - 1

\* the neighbors in nb that are the pair (p1, e2, e3)
NeighborsFor(nb, p1, e2, e3) ==
    { i \in 1..Len(nb) : nb[i][1] = sub2ind(p1[1], p1[2], p1[3]) * (K * K) + e2 * K + e3 }

\* C14: an expanded state other than the super-state, with voxels p0, p1, p2, has exactly
\* one neighbor for every e3 with p3 = p2 + d[e3] inside the image and p3 # p1, and no
\* other; that neighbor is the pair (p1, e2, e3), whose first two voxels are p1 and p2
C14_UsualExpansion ==
    lifting = "pairs" =>
        \A s \in closed \ {e_super} :
            LET c  == coords_in_a_edgepair(s)
                e2 == s % K
                nb == get_neighbors_torsion(s)
            IN  /\ \A e3 \in 0..(K - 1) :
                     LET p3 == <<c[3][1] + connectivity[e3 + 1][1],
                                 c[3][2] + connectivity[e3 + 1][2],
                                 c[3][3] + connectivity[e3 + 1][3]>>
                     IN  Cardinality(NeighborsFor(nb, c[2], e2, e3))
                           = IF InImage(p3) /\ p3 # c[2] THEN 1 ELSE 0
                /\ \A i \in 1..Len(nb) :
                     /\ \E e3 \in 0..(K - 1) : i \in NeighborsFor(nb, c[2], e2, e3)
                     /\ coords_in_a_edgepair(nb[i][1])[1] = c[2]
                     /\ coords_in_a_edgepair(nb[i][1])[2] = c[3]

\* an expanded state with a neighbor, a candidate that steps back and one that leaves the image
C14_Witness ==
    /\ lifting = "pairs"
    /\ \E s \in closed \ {e_super} :
         LET c == coords_in_a_edgepair(s)
         IN  /\ Len(get_neighbors_torsion(s)) >= 1
             /\ \E e3 \in 0..(K - 1) : Add(c[3], e3) = c[2]
             /\ \E e3 \in 0..(K - 1) : ~InImage(Add(c[3], e3))

\* C15: the points decoded from the lifted path a successful search returned are the first
\* two voxels of its first state followed by the third voxel of every state of the path, in
\* order, and no two consecutive points are equal
C15_DecodedWithoutRepeats ==
    (lifting = "pairs" /\ outcome = "ok") =>
        LET n == Len(path_pairs)
        IN  /\ n >= 1
            /\ Len(points) = n + 2
            /\ points[1] = coords_in_a_edgepair(path_pairs[1])[1]
            /\ points[2] = coords_in_a_edgepair(path_pairs[1])[2]
            /\ \A i \in 1..n : points[i + 2] = coords_in_a_edgepair(path_pairs[i])[3]
            /\ \A i \in 1..(n + 1) : points[i] # points[i + 1]

-----------------------------------------------------------------------------
(* The cost of a lifted path and the objective of refine_path *)

\* the value of a term of the objective on the points q; the term holds the zero-based
\* index of its last point, as ObjectiveTerms numbers them
TermValue(t, q) ==
    LET i == t[2]
    IN  CASE t[1] = "unary"     -> evaluate_line_integral(q[i], q[i + 1])
          [] t[1] = "length"    -> length_cost(q[i], q[i + 1])
          [] t[1] = "curvature" -> curvature_cost(q[i - 1], q[i], q[i + 1])
          [] t[1] = "torsion"   -> torsion_cost(q[i - 2], q[i - 1], q[i], q[i + 1])

RECURSIVE SumOfTerms(_, _)
SumOfTerms(T, q) ==
    IF T = {} THEN 0
    ELSE LET t == CHOOSE x \in T : TRUE
         IN  TermValue(t, q) + SumOfTerms(T \ {t}, q)

\* the objective refine_path assembles for the points q with the settings of the search
PathObjective(q) == SumOfTerms(ObjectiveTerms(Len(q), settings), q)

\* the points of the lifted path the search has found to the state s
DecodedTo(s) == pairpath_to_points(Tail(PathTo(parent, s)))

====
